---- MODULE Spec2Model ----
(***************************************************************************)
(* Orchestration graph of the medical assistant backend:                   *)
(*   SimpleAgentGraph.process = router stage -> handler stage ->           *)
(*   collaboration stage, with the rule engine and its four execution      *)
(*   strategies (sequential, parallel, winner-take-all, all-finish-merge). *)
(* A GraphState is a record; sharedData bags are total functions over Keys *)
(* whose value "" means "key absent".                                      *)
(***************************************************************************)
EXTENDS Integers, Sequences, FiniteSets, TLC

VARIABLES
  pc,        \* position of SimpleAgentGraph.process
  token,     \* input.metadata: "no_metadata" | "no_token" | "placeholder" | "valid"
  cfg,       \* "builtin": the registered agents; "stub": handler doubles
  ruleList,  \* the ordered list returned by getCollaborationRules()
  requested, \* strategy argument of executeCollaborationStrategy ("auto" = determineExecutionStrategy)
  st,        \* the GraphState in hand
  pre,       \* the GraphState given to the collaboration stage
  rules,     \* applicable rules of the running collaboration
  strategy,  \* strategy of the running collaboration
  cur,       \* currentState of executeSequentialCollaboration
  branch,    \* per rule: position, state handed to the handler, result
  order,     \* rule indexes in the order their invocations completed
  permits,   \* Semaphore.permits of executeParallelCollaboration
  waiting,   \* Semaphore.waiting (rule indexes, FIFO)
  calls,     \* history: number of handler invocations per <<stage, agent>>
  stages,    \* history: stages started, in order
  rejected,  \* process() rejected to its caller
  classified,\* history: what RouterAgent.classify returned (intent, tier)
  now,       \* Date.now(), in clock units
  served,    \* number of NotificationAgent.process calls so far
  queue,     \* notificationQueue: jobs [id, key], at most one per id
  planStore, \* app:notifications:plan/job keys: [nid, jobId, key]
  dlq,       \* notificationDLQ: reasons, in order of arrival
  prev,      \* history: the previous NotificationAgent.process call
  last       \* history: the latest NotificationAgent.process call

gvars == <<pc, token, cfg, ruleList, requested, st, pre, rules, strategy, cur,
           branch, order, permits, waiting, calls, stages, rejected,
           classified>>

nvars == <<now, served, queue, planStore, dlq, prev, last>>

vars == <<gvars, nvars>>

----------------------------------------------------------------------------
(* Bounds and program constants *)

MaxRules == 3

\* NotificationAgent.process is called at most MaxCalls times
MaxCalls == 2

MAX_CONCURRENT_EXECUTIONS == 2

Agents == {"appointment", "gp", "notification", "report"}

Registered == Agents \cup {"router"}

Keys == {"notificationSchedule", "appointmentSchedule", "reportSchedule",
         "__reportIngested", "note"}

ERROR_SENTINEL == "error_handler"

----------------------------------------------------------------------------
(* sharedData bags *)

NoShared == [k \in Keys |-> ""]

\* { ...a, ...b }
Spread(a, b) == [k \in Keys |-> IF b[k] # "" THEN b[k] ELSE a[k]]

KeysOf(sd) == {k \in Keys : sd[k] # ""}

----------------------------------------------------------------------------
(* Agent outputs *)

NoOutput ==
  [reply |-> "", action |-> "", payload |-> FALSE, by |-> "",
   hasShared |-> FALSE, shared |-> NoShared]

\* What one invocation of a handler's process() can do.
\*   kind "throw"   : process() rejects
\*   kind "ok"      : a regular reply, possibly with a sharedData bag
\*   kind "apology" : the handler's own catch block answered
Oc(kind, hasShared, shared) ==
  [kind |-> kind, hasShared |-> hasShared, shared |-> shared]

NotificationShared ==
  [k \in Keys |-> IF k = "notificationSchedule" THEN "notification" ELSE ""]

\* The registered handlers.  NotificationAgent.process has no enclosing
\* try/catch (its planner, matcher, plan store and dead-letter calls are
\* awaited bare) and attaches sharedData.notificationSchedule after a
\* successful enqueue; AppointmentAgent, GPAgent and ReportAgent wrap their
\* whole body in try/catch and never attach sharedData.
BuiltinOutcomes(agent) ==
  IF agent = "notification"
  THEN {Oc("throw", FALSE, NoShared), Oc("ok", FALSE, NoShared),
        Oc("ok", TRUE, NotificationShared)}
  ELSE {Oc("ok", FALSE, NoShared), Oc("apology", FALSE, NoShared)}

\* Handler doubles: any implementation of process(AgentInput) -> AgentOutput.
StubOutcomes(agent) ==
  {Oc("throw", FALSE, NoShared), Oc("ok", FALSE, NoShared),
   Oc("ok", TRUE, [k \in Keys |-> IF k = "note" THEN agent ELSE ""])}

Outcomes(agent) ==
  IF cfg = "builtin" THEN BuiltinOutcomes(agent) ELSE StubOutcomes(agent)

ToOutput(agent, oc) ==
  IF oc.kind = "apology"
  THEN [reply |-> "apology", action |-> "error/failed", payload |-> TRUE,
        by |-> agent, hasShared |-> FALSE, shared |-> NoShared]
  ELSE [reply |-> "reply", action |-> "done", payload |-> FALSE,
        by |-> agent, hasShared |-> oc.hasShared, shared |-> oc.shared]

----------------------------------------------------------------------------
(* try/catch structure *)

HasCatchNone(fn) == FALSE

\* The functions whose body is a try/catch that returns instead of rethrowing.
HasCatch(fn) ==
  fn \in {"RouterAgent.process", "executeRouter", "executeSpecializedAgent",
          "executeSequentialCollaboration", "executeParallelCollaboration",
          "executeWinnerTakeAllCollaboration",
          "executeAllFinishMergeCollaboration", "process"}

----------------------------------------------------------------------------
(* Router: intent-routing.ts and RouterAgent.process *)

\* intents classify() can return; "appointment.other" stands for an
\* appointment.* intent that INTENT_TO_ROUTE does not list
Intents == {"appointment.book", "appointment.check", "appointment.other",
            "report.generate", "health.advice", "notification.schedule",
            "smalltalk"}

FALLBACK_INTENT == "health.advice"

\* classify(): the LLM multi-agent tier (the only one that names additional
\* agents), the rule-based tier, the hybrid tier, and the fallback intent
\* of its catch block
Classifications ==
  {[intent |-> i, tier |-> "llm", additional |-> a] :
      i \in Intents, a \in {<<>>} \cup {<<x>> : x \in Agents}}
  \cup {[intent |-> i, tier |-> t, additional |-> <<>>] :
      i \in Intents, t \in {"rule", "hybrid"}}
  \cup {[intent |-> FALLBACK_INTENT, tier |-> "fallback", additional |-> <<>>]}

ResolveRoute(intent) ==
  CASE intent \in {"appointment.book", "appointment.check"} -> "appointment"
    [] intent \in {"report.cognitive.weekly", "report.generate",
                   "report.summary", "report.status"} -> "report"
    [] intent = "health.advice" -> "gp"
    [] intent = "notification.schedule" -> "notification"
    [] OTHER -> "gp"

\* /^appointment\./.test(intent)
IsAppointmentIntent(intent) ==
  intent \in {"appointment.book", "appointment.check", "appointment.other"}

BlockedWithoutTokenOnly(intent, tok) ==
  IsAppointmentIntent(intent) /\ tok \in {"no_metadata", "no_token"}

\* BLOCK_RULES[0]: metadata missing, googleAccessToken missing or empty,
\* or googleAccessToken === 'test-token'
Blocked(intent, tok) ==
  IsAppointmentIntent(intent)
  /\ tok \in {"no_metadata", "no_token", "placeholder"}

RouterResult(route, intent, multi, additional, out) ==
  [route |-> route, intent |-> intent, multi |-> multi,
   additional |-> additional, out |-> out]

\* RouterAgent.process after classify() returned (intent, additional agents);
\* oc is what the dispatched handler did.
RouterAgentProcess(tok, intent, additional, oc) ==
  IF Blocked(intent, tok)
  THEN [raised |-> FALSE,
        rr |-> RouterResult("none", "blocked", FALSE, <<>>,
                 [reply |-> "guard", action |-> "", payload |-> FALSE,
                  by |-> "router", hasShared |-> FALSE, shared |-> NoShared])]
  ELSE IF oc.kind = "throw"
  THEN IF HasCatch("RouterAgent.process")
       THEN [raised |-> FALSE,
             rr |-> RouterResult("gp", "error", FALSE, <<>>,
                      [reply |-> "apology", action |-> "error/failed",
                       payload |-> TRUE, by |-> "router",
                       hasShared |-> FALSE, shared |-> NoShared])]
       ELSE [raised |-> TRUE,
             rr |-> RouterResult("", "", FALSE, <<>>, NoOutput)]
  ELSE [raised |-> FALSE,
        rr |-> RouterResult(ResolveRoute(intent),
                 IF oc.kind = "apology" /\ ResolveRoute(intent) = "report"
                 THEN "report.error" ELSE intent,
                 additional # <<>>, additional,
                 ToOutput(ResolveRoute(intent), oc))]

----------------------------------------------------------------------------
(* GraphState *)

CreateInitialState ==
  [currentAgent |-> "", error |-> "", finalOutput |-> NoOutput,
   intent |-> "", multiAgentRequest |-> FALSE, additionalAgents |-> <<>>,
   shared |-> NoShared, messages |-> <<>>, timeline |-> <<>>]

Raise == [raised |-> TRUE, state |-> CreateInitialState]

Return(s) == [raised |-> FALSE, state |-> s]

HandleProcessingError(initialState) ==
  [initialState EXCEPT
     !.error = "Processing error",
     !.finalOutput = [reply |-> "apology", action |-> "error/failed",
                      payload |-> FALSE, by |-> "graph",
                      hasShared |-> FALSE, shared |-> NoShared]]

HandleRouterError(s) ==
  [s EXCEPT !.error = "Router error", !.currentAgent = ERROR_SENTINEL]

\* cause: "Agent not found" (getAgent) or "thrown" (agent.process rejected)
HandleSpecializedAgentError(s, cause) ==
  [s EXCEPT !.error = "Agent execution error: " \o cause,
            !.currentAgent = ERROR_SENTINEL]

\* saveIfReportCandidateOnce: marks the state's context.sharedData when the
\* message was judged a report candidate (ingest) and is not marked yet.
SaveIfReportCandidateOnce(s, ingest) ==
  IF ingest /\ s.shared["__reportIngested"] = ""
  THEN [s EXCEPT !.shared = Spread(s.shared,
          [k \in Keys |-> IF k = "__reportIngested" THEN "true" ELSE ""])]
  ELSE s

TimelineEntry(step, name) == [step |-> step, name |-> name]

\* executeRouter
ExecuteRouterFirstAdditional(s, res) ==
  IF res.raised
  THEN IF HasCatch("executeRouter")
       THEN Return(HandleRouterError(s))
       ELSE Raise
  ELSE Return([s EXCEPT
         !.currentAgent = IF res.rr.additional # <<>>
                          THEN res.rr.additional[1]
                          ELSE IF res.rr.route = "" THEN "chat"
                               ELSE res.rr.route,
         !.intent = res.rr.intent,
         !.multiAgentRequest = res.rr.multi,
         !.additionalAgents = res.rr.additional,
         !.messages = Append(s.messages,
            <<"router", IF res.rr.route = "" THEN "chat" ELSE res.rr.route,
              "request">>),
         !.finalOutput = res.rr.out])

ExecuteRouter(s, res) ==
  IF res.raised
  THEN IF HasCatch("executeRouter")
       THEN Return(HandleRouterError(s))
       ELSE Raise
  ELSE Return([s EXCEPT
         !.currentAgent = IF res.rr.route = "" THEN "chat" ELSE res.rr.route,
         !.intent = res.rr.intent,
         !.multiAgentRequest = res.rr.multi,
         !.additionalAgents = res.rr.additional,
         !.messages = Append(s.messages,
            <<"router", IF res.rr.route = "" THEN "chat" ELSE res.rr.route,
              "request">>),
         !.finalOutput = res.rr.out])

\* executeRouterStage
ExecuteRouterStage(s, res, ingest) ==
  LET r == ExecuteRouter(s, res) IN
  IF r.raised THEN Raise
  ELSE LET s1 == SaveIfReportCandidateOnce(r.state, ingest) IN
       Return([s1 EXCEPT
         !.timeline = Append(s1.timeline, TimelineEntry("router", ""))])

\* executeSpecializedAgent; oc is what agent.process did when it was reached
ExecuteSpecializedAgent(s, oc) ==
  LET agentName == IF s.currentAgent = "" THEN "chat" ELSE s.currentAgent IN
  IF agentName \notin Registered \/ oc.kind = "throw"
  THEN IF HasCatch("executeSpecializedAgent")
       THEN Return(HandleSpecializedAgentError(s,
              IF agentName \notin Registered THEN "Agent not found"
              ELSE "thrown"))
       ELSE Raise
  ELSE Return([s EXCEPT
         !.messages = Append(s.messages, <<agentName, "router", "response">>),
         !.finalOutput = ToOutput(agentName, oc)])

ExecuteSpecializedAgentStageNoEntry(s, oc) ==
  LET r == ExecuteSpecializedAgent(s, oc) IN
  IF r.raised THEN Raise ELSE Return(r.state)

\* executeSpecializedAgentStage
ExecuteSpecializedAgentStage(s, oc) ==
  LET r == ExecuteSpecializedAgent(s, oc) IN
  IF r.raised THEN Raise
  ELSE Return([r.state EXCEPT
         !.timeline = Append(r.state.timeline,
            TimelineEntry("agent",
              IF r.state.currentAgent = "" THEN "chat"
              ELSE r.state.currentAgent))])

----------------------------------------------------------------------------
(* Collaboration rules *)

Rule(name, priority, targetAgent, src, needs, unless) ==
  [name |-> name, priority |-> priority, targetAgent |-> targetAgent,
   src |-> src, needs |-> needs, unless |-> unless]

CreateNotificationToAppointmentRule ==
  Rule("notification-to-appointment", "high", "appointment",
       "notification", "notificationSchedule", "appointmentSchedule")

CreateAppointmentToReportRuleAfterNotification ==
  Rule("appointment-to-report", "low", "report",
       "notification", "notificationSchedule", "reportSchedule")

CreateAppointmentToReportRule ==
  Rule("appointment-to-report", "low", "report",
       "appointment", "appointmentSchedule", "reportSchedule")

GetCollaborationRules ==
  <<CreateNotificationToAppointmentRule, CreateAppointmentToReportRule>>

ShouldExecuteAnyAgent(rule, sd, currentAgent) ==
  /\ rule.needs # "" => sd[rule.needs] # ""
  /\ rule.unless # "" => sd[rule.unless] = ""

\* rule.shouldExecute(sharedData, intent, currentAgent); "" = no condition
ShouldExecute(rule, sd, currentAgent) ==
  /\ rule.src # "" => currentAgent = rule.src
  /\ rule.needs # "" => sd[rule.needs] # ""
  /\ rule.unless # "" => sd[rule.unless] = ""

\* Array.prototype.filter
RECURSIVE Filter(_, _, _)
Filter(seq, sd, currentAgent) ==
  IF seq = <<>> THEN <<>>
  ELSE IF ShouldExecute(Head(seq), sd, currentAgent)
       THEN <<Head(seq)>> \o Filter(Tail(seq), sd, currentAgent)
       ELSE Filter(Tail(seq), sd, currentAgent)

\* getApplicableRules on extractSharedData(state)
GetApplicableRules(list, s) ==
  Filter(list, s.finalOutput.shared, s.currentAgent)

PrioritiesOf(rs) == {rs[i].priority : i \in 1..Len(rs)}

HasMixedPriorities(rs) == Cardinality(PrioritiesOf(rs)) > 1

HasSamePriority(rs) ==
  IF Len(rs) <= 1 THEN FALSE
  ELSE \A i \in 1..Len(rs) : rs[i].priority = rs[1].priority

DetermineExecutionStrategyLoose(rs) ==
  IF Len(rs) = 1 THEN "sequential"
  ELSE IF Cardinality(PrioritiesOf(rs)) > 2 THEN "winner-take-all"
  ELSE IF Len(rs) > 1 THEN "all-finish-merge"
  ELSE "sequential"

DetermineExecutionStrategy(rs) ==
  IF Len(rs) = 1 THEN "sequential"
  ELSE IF HasMixedPriorities(rs) THEN "winner-take-all"
  ELSE IF HasSamePriority(rs) THEN "all-finish-merge"
  ELSE "sequential"

StrategyFunction(s) ==
  CASE s = "parallel" -> "executeParallelCollaboration"
    [] s = "winner-take-all" -> "executeWinnerTakeAllCollaboration"
    [] s = "all-finish-merge" -> "executeAllFinishMergeCollaboration"
    [] OTHER -> "executeSequentialCollaboration"

CreateCollaborationStateKeepAgent(s, rule) ==
  [s EXCEPT
     !.shared = IF s.finalOutput.hasShared
                THEN Spread(s.shared, s.finalOutput.shared) ELSE s.shared]

CreateCollaborationState(s, rule) ==
  [s EXCEPT
     !.currentAgent = rule.targetAgent,
     !.shared = IF s.finalOutput.hasShared
                THEN Spread(s.shared, s.finalOutput.shared) ELSE s.shared]

MergeSingleResultReplacing(mergedState, result) ==
  [mergedState EXCEPT
     !.messages = mergedState.messages \o result.messages,
     !.intent = result.intent,
     !.multiAgentRequest = result.multiAgentRequest,
     !.additionalAgents = result.additionalAgents,
     !.shared = IF result.finalOutput.hasShared
                THEN result.finalOutput.shared ELSE NoShared]

MergeSingleResult(mergedState, result) ==
  [mergedState EXCEPT
     !.messages = mergedState.messages \o result.messages,
     !.intent = result.intent,
     !.multiAgentRequest = result.multiAgentRequest,
     !.additionalAgents = result.additionalAgents,
     !.shared = Spread(Spread(mergedState.shared, result.shared),
                  IF result.finalOutput.hasShared
                  THEN result.finalOutput.shared ELSE NoShared)]

RECURSIVE MergeCollaborationResults(_, _)
\* results.reduce(mergeSingleResult, originalState)
MergeCollaborationResults(originalState, results) ==
  IF results = <<>> THEN originalState
  ELSE MergeCollaborationResults(
         MergeSingleResult(originalState, Head(results)), Tail(results))

----------------------------------------------------------------------------
(* SimpleAgentGraph.process: router stage and handler stage *)

StageNames == {"router", "handler", "collaboration"}

NoCalls == [c \in StageNames \X Agents |-> 0]

Called(c, stage, agent) == [c EXCEPT ![<<stage, agent>>] = @ + 1]

\* one rule's invocation: position, the state createCollaborationState made,
\* the state executeCollaborationRule returned, whether it returned at all,
\* and (history) whether the target handler's process threw
Idle == [pc |-> "idle", snap |-> CreateInitialState,
         result |-> CreateInitialState, success |-> FALSE, threw |-> FALSE]

\* an exception reached process(): its catch block answers, or the caller
\* sees the rejection
Escalate ==
  /\ pc' = "done"
  /\ IF HasCatch("process")
     THEN /\ st' = HandleProcessingError(CreateInitialState)
          /\ rejected' = rejected
     ELSE /\ st' = st
          /\ rejected' = TRUE

\* executeRouterStage(initialState), RouterAgent.process included
RouterStage ==
  /\ pc = "init"
  /\ stages' = Append(stages, "router")
  /\ \E c \in Classifications, ingest \in BOOLEAN :
       \E oc \in Outcomes(ResolveRoute(c.intent)) :
         LET res == RouterAgentProcess(token, c.intent, c.additional, oc)
             r == ExecuteRouterStage(st, res, ingest)
         IN /\ classified' = [intent |-> c.intent, tier |-> c.tier]
            /\ calls' = IF Blocked(c.intent, token) THEN calls
                        ELSE Called(calls, "router", ResolveRoute(c.intent))
            /\ IF r.raised
               THEN Escalate
               ELSE /\ st' = r.state
                    /\ pc' = IF r.state.error # "" THEN "done"
                             ELSE "router_done"
                    /\ rejected' = rejected
  /\ UNCHANGED <<nvars, token, cfg, ruleList, requested, pre, rules, strategy,
                 cur, branch, order, permits, waiting>>

\* executeSpecializedAgentStage(routerResult)
HandlerStage ==
  /\ pc = "router_done"
  /\ stages' = Append(stages, "handler")
  /\ LET agentName == st.currentAgent IN
     \E oc \in IF agentName \in Agents THEN Outcomes(agentName)
               ELSE {Oc("throw", FALSE, NoShared)} :
       LET r == ExecuteSpecializedAgentStage(st, oc)
       IN /\ calls' = IF agentName \in Agents
                      THEN Called(calls, "handler", agentName)
                      ELSE calls
          /\ IF r.raised
             THEN Escalate
             ELSE /\ st' = r.state
                  /\ pc' = IF r.state.error # "" THEN "done"
                           ELSE "handler_done"
                  /\ rejected' = rejected
  /\ UNCHANGED <<nvars, classified, token, cfg, ruleList, requested, pre, rules, strategy, cur,
                 branch, order, permits, waiting>>

----------------------------------------------------------------------------
(* Collaboration stage *)

\* the timeline entry executeCollaborationStage appends to its result
WithCollaborationEntry(s) ==
  [s EXCEPT !.timeline = Append(s.timeline, TimelineEntry("collaboration", ""))]

\* executeGenericCollaboration returns the state as it is when the request
\* is a multi-agent request, the output has no sharedData, or no rule applies
NoCascadeIgnoringMulti(s) ==
  \/ ~s.finalOutput.hasShared
  \/ GetApplicableRules(ruleList, s) = <<>>

NoCascade(s) ==
  \/ s.multiAgentRequest
  \/ ~s.finalOutput.hasShared
  \/ GetApplicableRules(ruleList, s) = <<>>

\* The synchronous start of the strategy.  executeSequentialCollaboration
\* enters its loop with the first rule; rules.map(...) of the other
\* strategies runs every branch up to its first await, in list order, and
\* under the parallel strategy that first step is Semaphore.acquire: a
\* branch takes a permit while permits > 0 and queues otherwise.
StartedBranches(strat, n) ==
  [i \in 1..n |->
     [Idle EXCEPT !.pc =
        CASE strat = "sequential" -> IF i = 1 THEN "ready" ELSE "idle"
          [] strat = "parallel" ->
               IF i <= MAX_CONCURRENT_EXECUTIONS THEN "ready" ELSE "waiting"
          [] OTHER -> "ready"]]

PermitsAfterStart(strat, n) ==
  IF strat = "parallel"
  THEN IF n >= MAX_CONCURRENT_EXECUTIONS THEN 0
       ELSE MAX_CONCURRENT_EXECUTIONS - n
  ELSE MAX_CONCURRENT_EXECUTIONS

WaitingAfterStart(strat, n) ==
  IF strat = "parallel"
  THEN [k \in 1..(IF n > MAX_CONCURRENT_EXECUTIONS
                  THEN n - MAX_CONCURRENT_EXECUTIONS ELSE 0) |->
          k + MAX_CONCURRENT_EXECUTIONS]
  ELSE <<>>

\* executeCollaborationStage when executeGenericCollaboration cascades nothing
CollabSkip ==
  /\ pc = "handler_done"
  /\ \E ingest \in BOOLEAN :
       LET s == SaveIfReportCandidateOnce(st, ingest) IN
       /\ NoCascade(s)
       /\ pre' = s
       /\ st' = WithCollaborationEntry(s)
  /\ pc' = "done"
  /\ stages' = Append(stages, "collaboration")
  /\ UNCHANGED <<nvars, classified, token, cfg, ruleList, requested, rules, strategy, cur,
                 branch, order, permits, waiting, calls, rejected>>

\* executeCollaborationStage up to executeCollaborationStrategy
CollabStart ==
  /\ pc = "handler_done"
  /\ \E ingest \in BOOLEAN :
       LET s == SaveIfReportCandidateOnce(st, ingest)
           applicable == GetApplicableRules(ruleList, s)
       IN /\ ~NoCascade(s)
          /\ pre' = s
          /\ cur' = s
          /\ rules' = applicable
          /\ strategy' = IF requested = "auto"
                         THEN DetermineExecutionStrategy(applicable)
                         ELSE requested
          /\ LET strat == IF requested = "auto"
                           THEN DetermineExecutionStrategy(applicable)
                           ELSE requested
                 n == Len(applicable)
             IN /\ branch' = StartedBranches(strat, n)
                /\ permits' = PermitsAfterStart(strat, n)
                /\ waiting' = WaitingAfterStart(strat, n)
  /\ pc' = "collab"
  /\ order' = <<>>
  /\ stages' = Append(stages, "collaboration")
  /\ UNCHANGED <<nvars, classified, token, cfg, ruleList, requested, st, calls, rejected>>

ReleaseRuleAlwaysIncrement(b) ==
  IF Len(waiting) > 0
  THEN /\ waiting' = Tail(waiting)
       /\ permits' = permits + 1
       /\ branch' = [b EXCEPT ![Head(waiting)].pc = "ready"]
  ELSE /\ permits' = permits + 1
       /\ waiting' = waiting
       /\ branch' = b

\* Semaphore.release applied to the branch table b
ReleaseRule(b) ==
  IF Len(waiting) > 0
  THEN /\ waiting' = Tail(waiting)
       /\ permits' = permits
       /\ branch' = [b EXCEPT ![Head(waiting)].pc = "ready"]
  ELSE /\ permits' = permits + 1
       /\ waiting' = waiting
       /\ branch' = b

\* the loop of executeSequentialCollaboration moves on to the next rule
NextRule(b, i) ==
  IF i < Len(b) THEN [b EXCEPT ![i + 1].pc = "ready"] ELSE b

\* executeCollaborationRule up to the handler call: ingestion marks the
\* state object it was given, createCollaborationState copies it
BranchInvoke(i) ==
  /\ pc = "collab"
  /\ i \in 1..Len(rules)
  /\ branch[i].pc = "ready"
  /\ \E ingest \in BOOLEAN :
       LET given == IF strategy = "sequential" THEN cur ELSE pre
           marked == SaveIfReportCandidateOnce(given, ingest)
           snap == CreateCollaborationState(marked, rules[i])
       IN /\ IF strategy = "sequential"
             THEN cur' = marked /\ pre' = pre
             ELSE pre' = marked /\ cur' = cur
          /\ branch' = [branch EXCEPT ![i].pc = "invoking", ![i].snap = snap]
          /\ calls' = IF snap.currentAgent \in Agents
                      THEN Called(calls, "collaboration", snap.currentAgent)
                      ELSE calls
  /\ UNCHANGED <<nvars, classified, pc, token, cfg, ruleList, requested, st, rules, strategy,
                 order, permits, waiting, stages, rejected>>

\* the handler call of executeCollaborationRule settles
BranchComplete(i) ==
  /\ i \in 1..Len(rules)
  /\ pc = "collab"
  /\ branch[i].pc = "invoking"
  /\ \E oc \in IF branch[i].snap.currentAgent \in Agents
               THEN Outcomes(branch[i].snap.currentAgent)
               ELSE {Oc("throw", FALSE, NoShared)} :
       LET r == ExecuteSpecializedAgent(branch[i].snap, oc)
           given == IF strategy = "sequential" THEN cur ELSE pre
           caught == r.raised /\ HasCatch(StrategyFunction(strategy))
           b == [branch EXCEPT
                   ![i].pc = "done",
                   ![i].success = ~r.raised,
                   ![i].threw = (oc.kind = "throw"),
                   ![i].result = IF r.raised THEN given ELSE r.state]
       IN IF r.raised /\ ~caught
          THEN /\ Escalate
               /\ UNCHANGED <<branch, cur, order, permits, waiting>>
          ELSE /\ IF strategy = "parallel"
                  THEN ReleaseRule(b)
                  ELSE /\ branch' = IF strategy = "sequential"
                                  THEN NextRule(b, i) ELSE b
                       /\ UNCHANGED <<permits, waiting>>
               /\ cur' = IF strategy = "sequential" /\ ~r.raised
                         THEN r.state ELSE cur
               /\ order' = Append(order, i)
               /\ UNCHANGED <<pc, st, rejected>>
  /\ UNCHANGED <<nvars, classified, token, cfg, ruleList, requested, pre, rules, strategy,
                 calls, stages>>

RECURSIVE SuccessfulInOrder(_, _)
\* the results of the successful branches, taken in the order idx lists them
SuccessfulInOrder(b, idx) ==
  IF idx = <<>> THEN <<>>
  ELSE IF b[Head(idx)].success
       THEN <<b[Head(idx)].result>> \o SuccessfulInOrder(b, Tail(idx))
       ELSE SuccessfulInOrder(b, Tail(idx))

ListOrder(b) == [i \in 1..Len(b) |-> i]

FindFirstCompletedResult(b, completion, original) ==
  LET ok == SuccessfulInOrder(b, completion) IN
  IF ok = <<>> THEN original ELSE Head(ok)

\* findFirstSuccessfulResult over Promise.allSettled(promises), which keeps
\* the order of the rules; the original state when no branch succeeded
FindFirstSuccessfulResult(b, completion, original) ==
  LET ok == SuccessfulInOrder(b, ListOrder(b)) IN
  IF ok = <<>> THEN original ELSE Head(ok)

\* what the strategy function returns once every branch has settled
StrategyResult ==
  CASE strategy = "parallel" ->
         MergeCollaborationResults(pre, SuccessfulInOrder(branch, order))
    [] strategy = "winner-take-all" ->
         FindFirstSuccessfulResult(branch, order, pre)
    [] strategy = "all-finish-merge" ->
         MergeCollaborationResults(pre,
           SuccessfulInOrder(branch, ListOrder(branch)))
    [] OTHER -> cur

\* the join of the strategy and the end of executeCollaborationStage
CollabJoin ==
  /\ pc = "collab"
  /\ \A i \in 1..Len(rules) : branch[i].pc = "done"
  /\ st' = WithCollaborationEntry(StrategyResult)
  /\ pc' = "done"
  /\ UNCHANGED <<nvars, classified, token, cfg, ruleList, requested, pre, rules, strategy, cur,
                 branch, order, permits, waiting, calls, stages, rejected>>

----------------------------------------------------------------------------
(* Notification scheduler: policy.ts, bullmq.ts, redis-mcp.ts and          *)
(* NotificationAgent.process.  The clock counts minutes of local time from *)
(* the midnight that starts a Sunday; instants are written "t<clock>"; ""  *)
(* means the field is undefined.                                           *)

\* pickRecipients returns this number whatever the intent says
SELF_NUMBER == "+61412345678"

\* String.prototype.trim on the messages drawn here
Trim(str) == IF str = " " THEN "" ELSE str

At(t) == "t" \o ToString(t)

\* the schedule variants of NotificationIntent; "missing" is an intent
\* without schedule
Schedules ==
  {[type |-> "now", arg |-> ""], [type |-> "missing", arg |-> ""],
   [type |-> "datetime", arg |-> "2031-01-01T09:00Z"],
   [type |-> "datetime", arg |-> ""],
   [type |-> "relative", arg |-> "PT1H"],
   [type |-> "relative", arg |-> "1 hour"],
   [type |-> "cron", arg |-> "0 9 * * *"]}

\* durationToMs in clock units; -1: it throws
DurationToMs(iso) == IF iso = "PT1H" THEN 60 ELSE -1

\* what the four regular expressions of inferDateTimeFromMessage find in
\* an utterance: /\btomorrow\b/; amount and unit of "in N <unit>" (amount -1:
\* no match); the weekday after "next" (-1: no match); hour, minute and
\* meridiem of "at H[:MM][am|pm]" (hour -1: no match)
Lex(tomorrow, amount, unit, weekday, hour, minute, meridiem) ==
  [tomorrow |-> tomorrow, amount |-> amount, unit |-> unit,
   weekday |-> weekday, hour |-> hour, minute |-> minute,
   meridiem |-> meridiem]

\* the matches in the utterances drawn here
Lexed(text) ==
  CASE text = "remind me in 1 hours" -> Lex(FALSE, 1, "hours", -1, -1, 0, "")
    [] text = "tomorrow" -> Lex(TRUE, -1, "", -1, -1, 0, "")
    [] text = "tomorrow at 10am" -> Lex(TRUE, -1, "", -1, 10, 0, "am")
    [] text = "tomorrow in 2 hours" -> Lex(TRUE, 2, "hours", -1, -1, 0, "")
    [] text = "in 30 minutes" -> Lex(FALSE, 30, "minutes", -1, -1, 0, "")
    [] text = "in 0 minutes" -> Lex(FALSE, 0, "minutes", -1, -1, 0, "")
    [] text = "in 1 day" -> Lex(FALSE, 1, "day", -1, -1, 0, "")
    [] text = "in 2 hours at 7pm" -> Lex(FALSE, 2, "hours", -1, 7, 0, "pm")
    [] text = "in 2 hours next monday" -> Lex(FALSE, 2, "hours", 1, -1, 0, "")
    [] text = "next sunday" -> Lex(FALSE, -1, "", 0, -1, 0, "")
    [] text = "next sunday 8am" -> Lex(FALSE, -1, "", 0, -1, 0, "")
    [] text = "next monday at 9:30 pm" -> Lex(FALSE, -1, "", 1, 9, 30, "pm")
    [] text = "at 7pm" -> Lex(FALSE, -1, "", -1, 7, 0, "pm")
    [] text = "at 6am" -> Lex(FALSE, -1, "", -1, 6, 0, "am")
    [] text = "at 12am" -> Lex(FALSE, -1, "", -1, 12, 0, "am")
    [] text = "at 12pm" -> Lex(FALSE, -1, "", -1, 12, 0, "pm")
    [] text = "at 9:30" -> Lex(FALSE, -1, "", -1, 9, 30, "")
    [] text = "at 0" -> Lex(FALSE, -1, "", -1, 0, 0, "")
    [] text = "at 23:59" -> Lex(FALSE, -1, "", -1, 23, 59, "")
    [] text = "at 30" -> Lex(FALSE, -1, "", -1, 30, 0, "")
    [] text = "at 5:90" -> Lex(FALSE, -1, "", -1, 5, 90, "")
    [] OTHER -> Lex(FALSE, -1, "", -1, -1, 0, "")

MINUTES_PER_DAY == 1440

\* Date.prototype.setMinutes(m) after setSeconds(0, 0)
SetMinutes(t, m) == t - (t % 60) + m

\* Date.prototype.setHours(h)
SetHours(t, h) == t - ((t % MINUTES_PER_DAY) \div 60) * 60 + h * 60

\* Date.prototype.setHours(9, 0, 0, 0)
SetNineOClock(t) == t - (t % MINUTES_PER_DAY) + 9 * 60

\* extractTime(base)
ExtractTime(lex, base) ==
  IF lex.hour = -1 THEN base
  ELSE LET hour == CASE lex.meridiem = "am" -> lex.hour % 12
                     [] lex.meridiem = "pm" -> (lex.hour % 12) + 12
                     [] OTHER -> lex.hour
       IN SetHours(SetMinutes(base, lex.minute), hour)

\* nextWeekday(from, targetWeekday)
NextWeekday(from, targetWeekday) ==
  LET curr == (from \div MINUTES_PER_DAY) % 7
      delta == targetWeekday - curr
  IN from + (IF delta <= 0 THEN delta + 7 ELSE delta) * MINUTES_PER_DAY

\* 1) tomorrow, at the time given or at 09:00
InferTomorrow(lex, t) ==
  IF lex.hour = -1 THEN SetNineOClock(t + MINUTES_PER_DAY)
  ELSE ExtractTime(lex, t + MINUTES_PER_DAY)

\* 2) in X minutes/hours/days
InferRelative(lex, t) ==
  t + lex.amount * (CASE lex.unit \in {"minute", "minutes"} -> 1
                      [] lex.unit \in {"hour", "hours"} -> 60
                      [] lex.unit \in {"day", "days"} -> MINUTES_PER_DAY
                      [] OTHER -> 0)

\* 3) next weekday, at the time given or at 09:00
InferNextWeekday(lex, t) ==
  IF lex.hour = -1 THEN SetNineOClock(NextWeekday(t, lex.weekday))
  ELSE ExtractTime(lex, NextWeekday(t, lex.weekday))

\* 4) explicit time today (if in future), otherwise tomorrow
InferBareTime(lex, t) ==
  LET todayAt == ExtractTime(lex, t) IN
  IF todayAt > t THEN todayAt ELSE ExtractTime(lex, t + MINUTES_PER_DAY)

\* the body of inferDateTimeFromMessage once the expressions have been
\* matched; -1: null
FirstMatchingPatternRelativeFirst(lex, t) ==
  IF lex.amount # -1 THEN InferRelative(lex, t)
  ELSE IF lex.tomorrow THEN InferTomorrow(lex, t)
  ELSE IF lex.weekday # -1 THEN InferNextWeekday(lex, t)
  ELSE IF lex.hour # -1 THEN InferBareTime(lex, t)
  ELSE -1

FirstMatchingPattern(lex, t) ==
  IF lex.tomorrow THEN InferTomorrow(lex, t)
  ELSE IF lex.amount # -1 THEN InferRelative(lex, t)
  ELSE IF lex.weekday # -1 THEN InferNextWeekday(lex, t)
  ELSE IF lex.hour # -1 THEN InferBareTime(lex, t)
  ELSE -1

\* inferDateTimeFromMessage at instant t; -1: null
InferDateTimeFromMessage(message, t) ==
  FirstMatchingPattern(Lexed(message), t)

Scheduled(scheduleAt, repeat) == [scheduleAt |-> scheduleAt, repeat |-> repeat]

\* if (inferred && inferred.getTime() > Date.now()) ... else now
InferredOrNow(inferred, t) ==
  IF inferred # -1 /\ inferred > t
  THEN Scheduled(At(inferred), "")
  ELSE Scheduled(At(t), "")

PickSchedule(intent, message, t) ==
  CASE intent.schedule.type = "datetime" ->
         Scheduled(intent.schedule.arg, "")
    [] intent.schedule.type = "relative" ->
         IF DurationToMs(intent.schedule.arg) >= 0
         THEN Scheduled(At(t + DurationToMs(intent.schedule.arg)), "")
         ELSE Scheduled("", "")
    [] intent.schedule.type = "cron" ->
         Scheduled("", intent.schedule.arg)
    [] OTHER -> InferredOrNow(InferDateTimeFromMessage(message, t), t)

PickRecipients(intent) == <<SELF_NUMBER>>

RenderTemplate(key) ==
  IF key = "reminder.simple" THEN "Hi, this is your reminder:" ELSE ""

PickBody(intent, message) ==
  IF Trim(intent.message) # "" THEN Trim(intent.message)
  ELSE IF intent.templateKey # "" THEN Trim(RenderTemplate(intent.templateKey))
  ELSE Trim(message)

RECURSIVE JoinAll(_)
JoinAll(seq) == IF seq = <<>> THEN "" ELSE Head(seq) \o "," \o JoinAll(Tail(seq))

\* sha256(JSON.stringify({to, body, scheduleAt, repeat})): the serialised
\* fields stand for their digest
GenerateIdempotencyKey(to, body, scheduleAt, repeat) ==
  JoinAll(to) \o "|" \o body \o "|" \o scheduleAt \o "|" \o repeat

NoPlan == [to |-> <<>>, body |-> "", scheduleAt |-> "", repeat |-> "",
           idempotencyKey |-> ""]

BuildPlan(to, body, scheduleAt, repeat, idempotencyKey) ==
  [to |-> to, body |-> body, scheduleAt |-> scheduleAt, repeat |-> repeat,
   idempotencyKey |-> idempotencyKey]

Fail(error) == [ok |-> FALSE, error |-> error, plan |-> NoPlan]

Succeed(plan) == [ok |-> TRUE, error |-> "", plan |-> plan]

EvaluatePolicy(intent, message, t) ==
  LET to == PickRecipients(intent)
      body == PickBody(intent, message)
      sch == PickSchedule(intent, message, t)
  IN IF Len(to) = 0 THEN Fail("No valid recipient phone numbers found.")
     ELSE IF body = "" THEN Fail("Message body is empty.")
     ELSE Succeed(BuildPlan(to, body, sch.scheduleAt, sch.repeat,
            GenerateIdempotencyKey(to, body, sch.scheduleAt, sch.repeat)))

\* Queue.add with opts.jobId: a job whose id is already in the queue is not
\* added again
QueueAdd(q, id, key) ==
  IF \E j \in q : j.id = id THEN q ELSE q \cup {[id |-> id, key |-> key]}

\* mcp.removeJobById
QueueRemove(q, id) == {j \in q : j.id # id}

\* mcp.getJobId; "": null
GetJobId(ps, nid) ==
  IF \E e \in ps : e.nid = nid
  THEN (CHOOSE e \in ps : e.nid = nid).jobId ELSE ""

\* What listUserPlans parses from one stored document: notificationId (or
\* id), jobId, and of its plan the idempotencyKey, scheduleAt, when.iso and
\* schedule.iso; "" is a field the document does not have.
PlanDoc(nid, jobId, key, scheduleAt, when, schedule) ==
  [nid |-> nid, jobId |-> jobId, key |-> key, scheduleAt |-> scheduleAt,
   when |-> when, schedule |-> schedule]

\* mcp.savePlanForUser: the document holds the plan as buildPlan made it
SavePlanForUser(ps, nid, plan, jobId) ==
  {e \in ps : e.nid # nid}
  \cup {PlanDoc(nid, jobId, plan.idempotencyKey, plan.scheduleAt, "", "")}

NotificationIdOfPlan(parsed, plan) == plan.idempotencyKey

\* const notificationId = parsed.notificationId || plan.idempotencyKey
NotificationIdOf(parsed, plan) ==
  IF parsed.notificationId # "" THEN parsed.notificationId
  ELSE plan.idempotencyKey

\* findMatchingPlanTool's answer; reason "none": it was not asked
Miss(reason) == [ok |-> FALSE, reason |-> reason, notificationId |-> ""]

Match(id) == [ok |-> TRUE, reason |-> "", notificationId |-> id]

NoCall ==
  [request |-> "", status |-> "none", policy |-> Fail(""), ops |-> <<>>,
   action |-> "", reason |-> "", hasShared |-> FALSE, jobId |-> "",
   notificationId |-> "", removed |-> "", at |-> 0, followup |-> "",
   match |-> Miss("none"), plans |-> <<>>, count |-> 0]

CatchEnqueueErrorSilently(call, cause) ==
  [call EXCEPT
     !.status = "enqueue_failed",
     !.action = "schedule_notification/failed",
     !.reason = "ENQUEUE_FAILED: " \o cause]

\* the catch block of NotificationAgent.process: dead letter, failed action
CatchEnqueueError(call, cause) ==
  [call EXCEPT
     !.status = "enqueue_failed",
     !.ops = Append(call.ops, "dlq"),
     !.action = "schedule_notification/failed",
     !.reason = "ENQUEUE_FAILED: " \o cause]

\* NotificationAgent.process for a create request or an update request with
\* a notificationId.  q, ps: queue and plan store before the call; gen: what
\* generateNotificationMessage returns; queueState: the job queue is "up",
\* is "down" (every operation rejects) or "rejects_add" (Queue.add rejects);
\* storeOk: whether the plan store answers.  The result is the call record
\* together with the queue and plan store it leaves behind.
NotificationAgentProcess(q, ps, req, gen, queueState, storeOk, t) ==
  LET queueOk == queueState = "up"
      isUpdate == req.parsed.operation = "update"
                  /\ req.parsed.notificationId # ""
      existing == IF isUpdate THEN GetJobId(ps, req.parsed.notificationId)
                  ELSE ""
      removes == existing # "" /\ \E j \in q : j.id = existing
      q1 == IF existing # "" THEN QueueRemove(q, existing) ELSE q
      parsed == IF Trim(req.parsed.message) = ""
                THEN [req.parsed EXCEPT !.message = gen] ELSE req.parsed
      policy == EvaluatePolicy(parsed, req.message, t)
      nid == NotificationIdOf(parsed, policy.plan)
      call0 == [NoCall EXCEPT !.request = req, !.at = t]
      call1 == [call0 EXCEPT
                  !.ops = IF removes THEN <<"remove">> ELSE <<>>,
                  !.removed = IF removes THEN existing ELSE "",
                  !.policy = policy]
  IN IF isUpdate /\ (~storeOk \/ (existing # "" /\ queueState = "down"))
     THEN [call |-> [call0 EXCEPT !.status = "threw"], queue |-> q,
           planStore |-> ps]
     ELSE IF ~policy.ok
     THEN [call |-> [call1 EXCEPT
                       !.status = "policy_failed",
                       !.ops = Append(call1.ops, "dlq"),
                       !.action = "plan_notification/failed",
                       !.reason = policy.error],
           queue |-> q1, planStore |-> ps]
     ELSE LET call2 == [call1 EXCEPT
                          !.ops = Append(call1.ops, "enqueue"),
                          !.notificationId = nid]
          IN IF ~queueOk
             THEN [call |-> CatchEnqueueError(call2, "queue"),
                   queue |-> q1, planStore |-> ps]
             ELSE IF ~storeOk
             THEN [call |-> CatchEnqueueError(
                              [call2 EXCEPT !.jobId = nid], "store"),
                   queue |-> QueueAdd(q1, nid, policy.plan.idempotencyKey),
                   planStore |-> ps]
             ELSE [call |-> [call2 EXCEPT
                               !.status = "scheduled",
                               !.ops = Append(call2.ops, "save"),
                               !.action = "schedule_notification/done",
                               !.followup = "info",
                               !.hasShared = TRUE,
                               !.jobId = nid],
                   queue |-> QueueAdd(q1, nid, policy.plan.idempotencyKey),
                   planStore |-> SavePlanForUser(ps, nid, policy.plan, nid)]

\* A calendar day as month and day of month
Day(month, day) == [month |-> month, day |-> day]

\* new Date(iso).getUTCMonth() + 1 and getUTCDate() of the instants that
\* occur in stored plans
UTCMonthDay(iso) ==
  CASE iso = "2025-07-03T09:00:00.000Z" -> Day(7, 3)
    [] iso = "2025-07-05T09:00:00.000Z" -> Day(7, 5)
    [] iso = "2031-01-01T09:00Z" -> Day(1, 1)
    [] iso = "2031-02-02T09:00Z" -> Day(2, 2)
    [] OTHER -> Day(0, 0)

\* utterance.matchAll(/(\d{1,2})\/(\d{1,2})/g) on the utterances drawn here
MentionedDates(utterance) ==
  CASE utterance \in {"the reminder on 7/3", "the one on 7/3"} ->
         <<Day(7, 3)>>
    [] utterance \in {"the reminder on 9/9", "the one on 9/9"} ->
         <<Day(9, 9)>>
    [] utterance = "the one on 1/1" -> <<Day(1, 1)>>
    [] utterance = "the one on 7/3 to 7/5" -> <<Day(7, 3), Day(7, 5)>>
    [] OTHER -> <<>>

\* /appointment|booking|reminder|notification|report/i.test(utterance)
HasTextHint(utterance) ==
  utterance \in {"the reminder on 7/3", "the reminder on 9/9"}

\* the candidate findMatchingPlanTool makes of one listed plan; scores are
\* in tenths, id "" is a candidate the filter drops
Candidate(p, utterance) ==
  LET whenIso == IF p.when # "" THEN p.when ELSE p.schedule
      dates == MentionedDates(utterance)
      dateScore == IF \E k \in 1..Len(dates) : UTCMonthDay(whenIso) = dates[k]
                   THEN 10 ELSE 0
      textScore == IF HasTextHint(utterance) THEN 1 ELSE 0
  IN IF p.nid = "" \/ whenIso = "" THEN [id |-> "", score |-> 0]
     ELSE [id |-> p.nid, score |-> dateScore + textScore]

\* Array.prototype.sort((a, b) => b.score - a.score): stable, highest first
SortByScore(cands) ==
  SelectSeq(cands, LAMBDA c : c.score = 11)
  \o SelectSeq(cands, LAMBDA c : c.score = 10)
  \o SelectSeq(cands, LAMBDA c : c.score = 1)
  \o SelectSeq(cands, LAMBDA c : c.score = 0)

\* if (candidates[0]?.score === 0) candidates[0].score = 0.5
Lift(candidates) ==
  IF candidates[1].score = 0 THEN [candidates EXCEPT ![1].score = 5]
  ELSE candidates

\* the end of findMatchingPlanTool: more than one candidate at the top
\* score is ambiguous, a single one is the match
SelectTop(lifted) ==
  IF Len(SelectSeq(lifted, LAMBDA c : c.score = lifted[1].score)) > 1
  THEN Miss("ambiguous")
  ELSE Match(lifted[1].id)

\* findMatchingPlanTool from the sorted candidates on
FromCandidates(plans, candidates, utterance, storeOk) ==
  IF ~storeOk THEN Miss("error")
  ELSE IF plans = <<>> THEN Miss("not_found")
  ELSE IF candidates = <<>> THEN Miss("not_found")
  ELSE IF MentionedDates(utterance) = <<>> THEN Miss("not_found")
  ELSE SelectTop(Lift(candidates))

\* findMatchingPlanTool; plans is what listUserPlans returned
FindMatchingPlanTool(plans, utterance, storeOk) ==
  FromCandidates(plans,
    SortByScore(SelectSeq([k \in 1..Len(plans) |->
                             Candidate(plans[k], utterance)],
                          LAMBDA c : c.id # "")),
    utterance, storeOk)

\* the orders in which listUserPlans (SMEMBERS, then MGET) may list the store
ListUserPlans(ps) ==
  {seq \in [1..Cardinality(ps) -> ps] :
     \A i, j \in 1..Cardinality(ps) : i # j => seq[i] # seq[j]}

\* the request with the notificationId the matching resolved
Resolved(req, match) ==
  IF match.ok
  THEN [req EXCEPT !.parsed.notificationId = match.notificationId]
  ELSE req

\* the record of a call that answers without touching queue or store
Answer(q, ps, call0, status, action, followup) ==
  [call |-> [call0 EXCEPT
               !.status = status, !.action = action, !.followup = followup],
   queue |-> q, planStore |-> ps]

\* cancelNotificationByIdTool and the answer of the cancel branch
CancelById(q, ps, call0, nid, existing, queueState, storeOk) ==
  IF ~storeOk \/ (existing # "" /\ queueState = "down")
  THEN Answer(q, ps, call0, "threw", "", "")
  ELSE IF existing = ""
  THEN Answer(q, ps, [call0 EXCEPT !.notificationId = nid],
              "cancel_failed", "cancel_notification/failed", "")
  ELSE [call |-> [call0 EXCEPT
                    !.status = "cancelled",
                    !.notificationId = nid,
                    !.ops = IF \E j \in q : j.id = existing
                            THEN <<"remove">> ELSE <<>>,
                    !.removed = IF \E j \in q : j.id = existing
                                THEN existing ELSE "",
                    !.action = "cancel_notification/done"],
        queue |-> QueueRemove(q, existing), planStore |-> ps]

\* the scheduling path for the resolved request, reported under the
\* request as it came in
Reschedule(r, call0) ==
  [r EXCEPT
     !.call.request = call0.request, !.call.match = call0.match,
     !.call.plans = call0.plans]

\* NotificationAgent.process once the matching (if any) has answered
AfterMatching(q, ps, plans, req, match, call0, gen, queueState, storeOk, t) ==
  CASE match.reason = "ambiguous" /\ req.parsed.operation = "cancel" ->
         Answer(q, ps, call0, "pending", "cancel_notification/pending", "")
    [] match.reason \in {"not_found", "error"}
         /\ req.parsed.operation = "cancel" ->
         Answer(q, ps, call0, "not_found", "cancel_notification/failed", "")
    [] match.reason = "ambiguous" /\ req.parsed.operation = "update" ->
         Answer(q, ps, call0, "pending", "update_notification/pending",
                "question")
    [] match.reason \in {"not_found", "error"}
         /\ req.parsed.operation = "update" ->
         Answer(q, ps, call0, "not_found", "update_notification/failed", "")
    [] match.reason \in {"", "none"} /\ req.parsed.operation = "cancel" ->
         CancelById(q, ps, call0, Resolved(req, match).parsed.notificationId,
                    GetJobId(ps, Resolved(req, match).parsed.notificationId),
                    queueState, storeOk)
    [] req.parsed.operation = "query" ->
         Answer(q, ps, [call0 EXCEPT
                          !.count = IF storeOk THEN Len(plans) ELSE 0],
                "queried", "query_notification/done", "")
    [] OTHER ->
         Reschedule(NotificationAgentProcess(q, ps, Resolved(req, match), gen,
                                             queueState, storeOk, t),
                    call0)

\* the record of a call as it starts
StartCall(req, match, plans, t) ==
  [NoCall EXCEPT
     !.request = req, !.at = t, !.match = match,
     !.plans = IF match.reason = "none" THEN <<>> ELSE plans]

\* findMatchingPlanTool is asked when a cancel or an update names no
\* notificationId
MatchFor(plans, req, storeOk) ==
  IF req.parsed.operation \in {"cancel", "update"}
     /\ req.parsed.notificationId = ""
  THEN FindMatchingPlanTool(plans, req.message, storeOk)
  ELSE Miss("none")

\* the branches of NotificationAgent.process for a given answer of the
\* matching
WithMatch(q, ps, plans, req, match, gen, queueState, storeOk, t) ==
  AfterMatching(q, ps, plans, req, match, StartCall(req, match, plans, t),
                gen, queueState, storeOk, t)

\* NotificationAgent.process for any request: the cancel, query and
\* update-by-matching branches, then the scheduling path above.  plans is
\* what listUserPlans returns during this call.
NotificationAgentProcessAny(q, ps, plans, req, gen, queueState, storeOk, t) ==
  WithMatch(q, ps, plans, req, MatchFor(plans, req, storeOk), gen,
            queueState, storeOk, t)

Parsed(operation, notificationId, recipients, message, schedule) ==
  [operation |-> operation, notificationId |-> notificationId,
   recipients |-> recipients, message |-> message, templateKey |-> "",
   schedule |-> schedule]

Request(parsed, message) == [parsed |-> parsed, message |-> message]

\* What extractIntent may hand to the scheduler: every schedule variant
\* with and without recipients; the utterance that carries a relative time;
\* intents without message, down to an utterance that is blank; and updates
\* of a known or an unknown notification.
CreateRequests ==
  {Request(Parsed("create", "", <<"+61400000001">>, "take pills", sch),
           "remind me") : sch \in Schedules}
  \cup {Request(Parsed("create", "", <<>>, "take pills", sch), "remind me") :
      sch \in {s1 \in Schedules : s1.type = "now"}}
  \cup {Request(Parsed("create", "", <<"+61400000001">>, "take pills", sch),
                "remind me in 1 hours") :
      sch \in {s1 \in Schedules : s1.type \in {"now", "missing"}}}
  \cup {Request(Parsed("create", "", <<"+61400000001">>, "",
                       [type |-> "datetime", arg |-> "2031-01-01T09:00Z"]), m) :
      m \in {"remind me", " "}}

UpdateRequests(ps) ==
  {Request(Parsed("update", n, <<"+61400000001">>, "take pills",
                  [type |-> "datetime", arg |-> "2031-02-02T09:00Z"]), m) :
      n \in {e.nid : e \in ps} \cup {"n-unknown"}, m \in {"move it"}}
  \cup {Request(Parsed("update", n, <<"+61400000001">>, "",
                  [type |-> "datetime", arg |-> "2031-02-02T09:00Z"]), " ") :
      n \in {e.nid : e \in ps}}

\* one call of NotificationAgent.process, at the time of the previous one or
\* one clock unit later
NotificationRequest ==
  /\ served < MaxCalls
  /\ \E dt \in 0..1, queueState \in {"up", "down", "rejects_add"},
        storeOk \in BOOLEAN, gen \in {"", "Reminder"} :
       /\ (queueState # "up" => storeOk)
       /\ \E req \in CreateRequests \cup UpdateRequests(planStore) :
            LET r == NotificationAgentProcess(queue, planStore, req, gen,
                                              queueState, storeOk, now + dt)
            IN /\ (Trim(req.parsed.message) # "" => gen = "Reminder")
               /\ now' = now + dt
               /\ queue' = r.queue
               /\ planStore' = r.planStore
               /\ dlq' = dlq \o SelectSeq(
                           <<IF "dlq" \in {r.call.ops[k] :
                                             k \in 1..Len(r.call.ops)}
                             THEN r.call.reason ELSE "">>,
                           LAMBDA x : x # "")
               /\ prev' = [request |-> last.request, status |-> last.status,
                            key |-> last.policy.plan.idempotencyKey,
                            at |-> last.at]
               /\ last' = r.call
  /\ served' = served + 1
  /\ UNCHANGED gvars

NotifyIdle ==
  /\ now = 0
  /\ served = 0
  /\ queue = {}
  /\ planStore = {}
  /\ dlq = <<>>
  /\ prev = [request |-> "", status |-> "none", key |-> "", at |-> 0]
  /\ last = NoCall

\* the utterances of requests that name no notificationId
Utterances ==
  {"the reminder on 7/3", "the one on 7/3", "the reminder on 9/9",
   "the one on 9/9", "the one on 1/1", "the one on 7/3 to 7/5", "that one"}

\* cancel, update and query requests as extractIntent may hand them over:
\* without a notificationId for every utterance, and cancel with the
\* notificationId of a stored or an unknown plan
CrudRequests(ps) ==
  {Request(Parsed("cancel", "", <<>>, "", [type |-> "missing", arg |-> ""]),
           u) : u \in Utterances}
  \cup {Request(Parsed("update", "", <<"+61400000001">>, "take pills",
                  [type |-> "datetime", arg |-> "2031-02-02T09:00Z"]), u) :
          u \in Utterances}
  \cup {Request(Parsed("cancel", n, <<>>, "",
                  [type |-> "missing", arg |-> ""]), "that one") :
          n \in {e.nid : e \in ps} \cup {"n-unknown"}}
  \cup {Request(Parsed("query", "", <<>>, "",
                  [type |-> "missing", arg |-> ""]), "that one")}

\* the call of NotificationAgent.process with a cancel, update or query
\* request against the store as it stands
CrudRequest ==
  /\ served = 0
  /\ \E queueState \in {"up", "down"}, storeOk \in BOOLEAN :
       /\ (queueState # "up" => storeOk)
       /\ \E req \in CrudRequests(planStore),
             plans \in ListUserPlans(planStore) :
            LET r == NotificationAgentProcessAny(queue, planStore, plans,
                       req, "Reminder", queueState, storeOk, now + 1)
            IN /\ now' = now + 1
               /\ queue' = r.queue
               /\ planStore' = r.planStore
               /\ dlq' = dlq \o SelectSeq(
                           <<IF "dlq" \in {r.call.ops[k] :
                                             k \in 1..Len(r.call.ops)}
                             THEN r.call.reason ELSE "">>,
                           LAMBDA x : x # "")
               /\ prev' = [request |-> last.request, status |-> last.status,
                            key |-> last.policy.plan.idempotencyKey,
                            at |-> last.at]
               /\ last' = r.call
  /\ served' = served + 1
  /\ UNCHANGED gvars

\* plans other writers of the store left there, as the matching test's
\* double lists them
ForeignDocs ==
  {PlanDoc("n1", "n1", "k-n1", "", "2025-07-03T09:00:00.000Z", ""),
   PlanDoc("n2", "n2", "k-n2", "", "", "2025-07-05T09:00:00.000Z"),
   PlanDoc("n3", "n3", "k-n3", "", "2025-07-03T09:00:00.000Z", "")}

\* the store and the queue after the scheduler served the create requests
\* of creates, each a reminder at 2031-01-01T09:00Z
Scheduled0(creates) ==
  IF creates = 0 THEN [queue |-> {}, planStore |-> {}]
  ELSE LET r == NotificationAgentProcess({}, {},
                  Request(Parsed("create", "", <<"+61400000001">>,
                                 "take pills",
                                 [type |-> "datetime",
                                  arg |-> "2031-01-01T09:00Z"]),
                          "remind me"),
                  "Reminder", "up", TRUE, 0)
       IN [queue |-> r.queue, planStore |-> r.planStore]

\* the utterances of create requests whose schedule is left to inference
TimedUtterances ==
  {"remind me", "remind me in 1 hours", "tomorrow", "tomorrow at 10am",
   "tomorrow in 2 hours", "in 30 minutes", "in 0 minutes", "in 1 day",
   "in 2 hours at 7pm", "in 2 hours next monday", "next sunday",
   "next sunday 8am", "next monday at 9:30 pm", "at 7pm", "at 6am",
   "at 12am", "at 12pm", "at 9:30", "at 0", "at 23:59", "at 30", "at 5:90"}

\* the instants at which such a request arrives: Sunday 00:00, 09:29, 09:30,
\* 18:59, 19:00 and 23:59, Monday 10:00 and Saturday 20:00
Instants ==
  {0, 569, 570, 1139, 1140, 1439, MINUTES_PER_DAY + 600,
   6 * MINUTES_PER_DAY + 1200}

\* the call of NotificationAgent.process with a create request whose
\* schedule is 'now' or missing
InferRequest ==
  /\ served = 0
  /\ \E u \in TimedUtterances,
        sch \in {s1 \in Schedules : s1.type \in {"now", "missing"}} :
       LET req == Request(Parsed("create", "", <<"+61400000001">>,
                                 "take pills", sch), u)
           r == NotificationAgentProcess(queue, planStore, req, "Reminder",
                                         "up", TRUE, now)
       IN /\ queue' = r.queue
          /\ planStore' = r.planStore
          /\ prev' = [request |-> last.request, status |-> last.status,
                       key |-> last.policy.plan.idempotencyKey,
                       at |-> last.at]
          /\ last' = r.call
  /\ served' = served + 1
  /\ UNCHANGED <<gvars, now, dlq>>

----------------------------------------------------------------------------
(* Specifications *)

Tokens == {"no_metadata", "no_token", "placeholder", "valid"}

InitCommon ==
  /\ pre = CreateInitialState
  /\ rules = <<>>
  /\ strategy = ""
  /\ cur = CreateInitialState
  /\ branch = <<>>
  /\ order = <<>>
  /\ permits = MAX_CONCURRENT_EXECUTIONS
  /\ waiting = <<>>
  /\ rejected = FALSE
  /\ classified = [intent |-> "", tier |-> ""]

\* a request arrives at the graph built by initializeAgents()
Init ==
  /\ NotifyIdle
  /\ pc = "init"
  /\ token \in Tokens
  /\ cfg = "builtin"
  /\ ruleList = GetCollaborationRules
  /\ requested = "auto"
  /\ st = CreateInitialState
  /\ calls = NoCalls
  /\ stages = <<>>
  /\ InitCommon

Next ==
  \/ RouterStage
  \/ HandlerStage
  \/ CollabSkip
  \/ CollabStart
  \/ \E i \in 1..MaxRules : BranchInvoke(i)
  \/ \E i \in 1..MaxRules : BranchComplete(i)
  \/ CollabJoin

Spec == Init /\ [][Next]_vars

(* The rule engine on its own: the collaboration stage applied to an        *)
(* arbitrary ordered rule list, handler doubles and a requested strategy.   *)

StubTargets == <<"appointment", "report", "gp", "notification">>

StubRuleNames == <<"rule-1", "rule-2", "rule-3", "rule-4">>

\* the priorities the doubles' rules are drawn from
StubPriorities == {"high", "low"}

StubRuleLists ==
  UNION {[1..n -> StubPriorities] : n \in 1..MaxRules}

StubRules(prios) ==
  [i \in 1..Len(prios) |->
     Rule(StubRuleNames[i], prios[i], StubTargets[i], "", "", "")]

\* a state as the handler stage returns it for a notification request
HandledState(multi, hasShared, ingested) ==
  [currentAgent |-> "notification", error |-> "",
   finalOutput |-> ToOutput("notification",
      Oc("ok", hasShared, IF hasShared THEN NotificationShared ELSE NoShared)),
   intent |-> "notification.schedule", multiAgentRequest |-> multi,
   additionalAgents |-> IF multi THEN <<"appointment">> ELSE <<>>,
   shared |-> [k \in Keys |-> IF k = "__reportIngested" /\ ingested
                              THEN "true" ELSE ""],
   messages |-> <<<<"router", "notification", "request">>,
                  <<"notification", "router", "response">>>>,
   timeline |-> <<TimelineEntry("router", ""),
                  TimelineEntry("agent", "notification")>>]

InitCollab ==
  /\ NotifyIdle
  /\ pc = "handler_done"
  /\ token = "valid"
  /\ cfg = "stub"
  /\ \E prios \in StubRuleLists :
       /\ ruleList = StubRules(prios)
       /\ requested \in IF \A i \in 1..Len(prios) : prios[i] = "high"
                         THEN {"auto", "sequential", "parallel"}
                         ELSE {"auto"}
  /\ \E multi \in BOOLEAN, hasShared \in BOOLEAN :
       st = HandledState(multi, hasShared, FALSE)
  /\ calls = Called(Called(NoCalls, "router", "notification"),
                     "handler", "notification")
  /\ stages = <<"router", "handler">>
  /\ InitCommon

NextCollab ==
  \/ CollabSkip
  \/ CollabStart
  \/ \E i \in 1..MaxRules : BranchInvoke(i)
  \/ \E i \in 1..MaxRules : BranchComplete(i)
  \/ CollabJoin

SpecCollab == InitCollab /\ [][NextCollab]_vars

\* the whole pipeline, with the shipped rule list and with stub rule lists
InitAll == Init \/ InitCollab

SpecAll == InitAll /\ [][Next]_vars

(* The notification scheduler on its own: a sequence of calls of            *)
(* NotificationAgent.process against one job queue and one plan store.      *)

InitNotify ==
  /\ NotifyIdle
  /\ pc = "idle"
  /\ token = "valid"
  /\ cfg = "builtin"
  /\ ruleList = GetCollaborationRules
  /\ requested = "auto"
  /\ st = CreateInitialState
  /\ calls = NoCalls
  /\ stages = <<>>
  /\ InitCommon

NextNotify == NotificationRequest

SpecNotify == InitNotify /\ [][NextNotify]_vars

----------------------------------------------------------------------------
(* Cancel, update and query requests against a store that holds what the   *)
(* scheduler saved and what other writers left there.                      *)

InitMatch ==
  /\ now = 0
  /\ served = 0
  /\ dlq = <<>>
  /\ prev = [request |-> "", status |-> "none", key |-> "", at |-> 0]
  /\ last = NoCall
  /\ \E creates \in 0..1, docs \in SUBSET ForeignDocs :
       /\ planStore = Scheduled0(creates).planStore \cup docs
       /\ queue = Scheduled0(creates).queue
                  \cup {[id |-> e.jobId, key |-> e.key] : e \in docs}
  /\ pc = "idle"
  /\ token = "valid"
  /\ cfg = "builtin"
  /\ ruleList = GetCollaborationRules
  /\ requested = "auto"
  /\ st = CreateInitialState
  /\ calls = NoCalls
  /\ stages = <<>>
  /\ InitCommon

NextMatch == CrudRequest

SpecMatch == InitMatch /\ [][NextMatch]_vars

----------------------------------------------------------------------------
(* Create requests whose schedule the policy infers from the utterance,    *)
(* arriving at different times of day and days of the week.                *)

InitInfer ==
  /\ now \in Instants
  /\ served = 0
  /\ queue = {}
  /\ planStore = {}
  /\ dlq = <<>>
  /\ prev = [request |-> "", status |-> "none", key |-> "", at |-> 0]
  /\ last = NoCall
  /\ pc = "idle"
  /\ token = "valid"
  /\ cfg = "builtin"
  /\ ruleList = GetCollaborationRules
  /\ requested = "auto"
  /\ st = CreateInitialState
  /\ calls = NoCalls
  /\ stages = <<>>
  /\ InitCommon

NextInfer == InferRequest

SpecInfer == InitInfer /\ [][NextInfer]_vars

----------------------------------------------------------------------------
(* Claims *)

StageOrder == <<"router", "handler", "collaboration">>

StepOf(stage) == IF stage = "handler" THEN "agent" ELSE stage

CollaborationCalls ==
  LET RECURSIVE Sum(_)
      Sum(S) == IF S = {} THEN 0
                ELSE LET a == CHOOSE x \in S : TRUE
                     IN calls[<<"collaboration", a>>] + Sum(S \ {a})
  IN Sum(Agents)

Cascaded == pc = "done" /\ Len(stages) = 3 /\ rules # <<>>

\* C1: process() never rejects: whatever a handler does when the router
\* dispatches to it, in the handler stage or in a cascade, the run ends with
\* a GraphState handed back to the caller.
C1_ProcessNeverThrows ==
  /\ ~rejected
  /\ pc = "done" => st.timeline # <<>> \/ st.error # ""

\* a run in which the handler threw in the handler stage and process()
\* still returned
C1_Witness ==
  /\ pc = "done"
  /\ st.error = "Agent execution error: thrown"
  /\ ~rejected

\* C2: the stages run in the order router, handler, collaboration, each at
\* most once; a state with error set ends the run; the returned timeline
\* has one entry per executed stage, in that order, and the handler stage's
\* entry is named after the state's currentAgent.
C2_StageOrderAndTimeline ==
  /\ Len(stages) <= 3
  /\ \A k \in 1..Len(stages) : stages[k] = StageOrder[k]
  /\ st.error # "" => pc = "done"
  /\ pc = "done" =>
       /\ Len(st.timeline) = Len(stages)
       /\ \A k \in 1..Len(stages) : st.timeline[k].step = StepOf(stages[k])
       /\ Len(stages) = 2 => st.timeline[2].name = st.currentAgent
       /\ Len(stages) = 3 => st.timeline[2].name = pre.currentAgent
       /\ Len(stages) < 3 => st.error # ""

\* a run that executed all three stages, a cascade included
C2_Witness ==
  /\ pc = "done"
  /\ stages = StageOrder
  /\ rules # <<>>
  /\ Len(st.timeline) = 3

\* C3 (as claimed): when a handler's process throws in the handler stage the
\* returned state has error set, currentAgent = 'error_handler' and the
\* fixed apologetic finalOutput with an error/failed action carrying a
\* payload {reason, details}.
C3_HandlerFailureReply ==
  (pc = "done" /\ st.error = "Agent execution error: thrown") =>
     /\ st.currentAgent = ERROR_SENTINEL
     /\ st.finalOutput.reply = "apology"
     /\ st.finalOutput.action = "error/failed"
     /\ st.finalOutput.payload

\* C4: notification was routed, its handler-stage output carries
\* notificationSchedule and the request is not a multi-agent request: the
\* only applicable rule is notification-to-appointment, the strategy is
\* sequential, the cascade invokes the appointment handler once, and the run
\* ends with currentAgent = 'appointment' and notificationSchedule in
\* context.sharedData.
C4_Precondition ==
  /\ pc = "done"
  /\ Len(stages) = 3
  /\ pre.currentAgent = "notification"
  /\ pre.finalOutput.hasShared
  /\ pre.finalOutput.shared["notificationSchedule"] # ""
  /\ ~pre.multiAgentRequest

C4_NotificationCascade ==
  C4_Precondition =>
     /\ Len(rules) = 1
     /\ rules[1].name = "notification-to-appointment"
     /\ strategy = "sequential"
     /\ calls[<<"collaboration", "appointment">>] = 1
     /\ CollaborationCalls = 1
     /\ st.currentAgent = "appointment"
     /\ st.shared["notificationSchedule"] # ""

C4_Witness ==
  /\ C4_Precondition
  /\ st.currentAgent = "appointment"
  /\ st.finalOutput.by = "appointment"

\* C5: when the router stage set multiAgentRequest the collaboration stage
\* invokes no handler, evaluates no rule and returns currentAgent and
\* finalOutput as the handler stage produced them, whatever sharedData the
\* handler attached.
C5_MultiAgentSkipsCollaboration ==
  (Len(stages) = 3 /\ pre.multiAgentRequest) =>
     /\ pc = "done"
     /\ rules = <<>>
     /\ strategy = ""
     /\ CollaborationCalls = 0
     /\ st.currentAgent = pre.currentAgent
     /\ st.finalOutput = pre.finalOutput

\* a multi-agent request whose handler attached notificationSchedule
C5_Witness ==
  /\ pc = "done"
  /\ Len(stages) = 3
  /\ pre.multiAgentRequest
  /\ pre.currentAgent = "notification"
  /\ pre.finalOutput.shared["notificationSchedule"] # ""

\* C6: a cascade never cycles: every applicable rule's target is invoked at
\* most once, and no rule that ran is applicable again on the state after
\* the cascade, neither on the sharedData of its finalOutput nor on the
\* cascaded context.sharedData.
C6_CascadeTerminates ==
  /\ CollaborationCalls <= Len(rules)
  /\ Len(order) <= Len(rules)
  /\ Cascaded =>
       \A i \in 1..Len(rules) :
         /\ ~ShouldExecute(rules[i], st.finalOutput.shared, st.currentAgent)
         /\ ~ShouldExecute(rules[i],
               Spread(st.shared, st.finalOutput.shared), st.currentAgent)

\* after notification-to-appointment ran, with the schedule carried forward
C6_Witness ==
  /\ Cascaded
  /\ rules[1].name = "notification-to-appointment"
  /\ CollaborationCalls = 1
  /\ st.shared["notificationSchedule"] # ""

\* C7: the strategy is a function of the applicable rules: one rule gives
\* sequential, several rules of more than one priority give winner-take-all,
\* several rules of one priority give all-finish-merge; parallel is never
\* selected.
C7_StrategySelection ==
  (pc \in {"collab", "done"} /\ rules # <<>> /\ requested = "auto") =>
     /\ Len(rules) = 1 => strategy = "sequential"
     /\ (Len(rules) >= 2 /\
         \E i, j \in 1..Len(rules) : rules[i].priority # rules[j].priority)
          => strategy = "winner-take-all"
     /\ (Len(rules) >= 2 /\
         \A i, j \in 1..Len(rules) : rules[i].priority = rules[j].priority)
          => strategy = "all-finish-merge"
     /\ strategy # "parallel"

\* three rules of which only the last differs in priority
C7_Witness ==
  /\ pc = "collab"
  /\ requested = "auto"
  /\ Len(rules) = 3
  /\ rules[1].priority = rules[2].priority
  /\ rules[3].priority # rules[1].priority
  /\ strategy = "winner-take-all"

\* C8 (as claimed): a rule whose target handler throws is excluded: its
\* state is neither adopted nor merged and the state the collaboration stage
\* returns has no error and not the error sentinel as currentAgent.
C8_FailedRuleExcluded ==
  (Cascaded /\ \E i \in 1..Len(rules) : branch[i].threw) =>
     /\ st.error = ""
     /\ st.currentAgent # ERROR_SENTINEL

\* C9: under winner-take-all with at least two rules that all succeed the
\* adopted state is the first-listed rule's, in whatever order the branches
\* completed, and nothing is adopted before every branch has completed.
C9_WinnerIsFirstListed ==
  (strategy = "winner-take-all" /\ Len(rules) >= 2) =>
     /\ pc = "collab" => st.currentAgent = pre.currentAgent
                         /\ st.finalOutput = pre.finalOutput
     /\ pc = "done" => \A i \in 1..Len(rules) : branch[i].pc = "done"
     /\ (pc = "done" /\ \A i \in 1..Len(rules) : ~branch[i].threw) =>
          /\ st.currentAgent = rules[1].targetAgent
          /\ st.finalOutput = branch[1].result.finalOutput
          /\ st.shared = branch[1].result.shared
          /\ st.messages = branch[1].result.messages

\* the last-listed branch completed first, the first-listed one last
C9_Witness ==
  /\ pc = "done"
  /\ strategy = "winner-take-all"
  /\ Len(rules) >= 2
  /\ \A i \in 1..Len(rules) : ~branch[i].threw
  /\ order[1] = Len(rules)
  /\ order[Len(rules)] = 1

\* C10 (as claimed): under every strategy, when some rule's handler
\* succeeded the returned state has the targetAgent of a successful rule as
\* currentAgent and that handler's output as finalOutput.
C10_CascadeResultAdopted ==
  (Cascaded /\ \E i \in 1..Len(rules) : ~branch[i].threw) =>
     \E i \in 1..Len(rules) :
        /\ ~branch[i].threw
        /\ st.currentAgent = rules[i].targetAgent
        /\ st.finalOutput = branch[i].result.finalOutput

\* branches holding a semaphore slot / branches whose handler call is pending
Held == Cardinality({i \in 1..Len(rules) : branch[i].pc \in {"ready", "invoking"}})

InFlight == Cardinality({i \in 1..Len(rules) : branch[i].pc = "invoking"})

\* C11 (as claimed): under the parallel, winner-take-all and
\* all-finish-merge strategies at most 2 rule-triggered handler invocations
\* are in flight at any moment.
C11_AtMostTwoInFlight ==
  (pc = "collab" /\ strategy \in {"parallel", "winner-take-all",
                                  "all-finish-merge"}) =>
     InFlight <= MAX_CONCURRENT_EXECUTIONS

\* C12: the semaphore of the parallel strategy is leak-free: permits stays
\* within 0..2, permits plus the slots held is 2, a branch waits only while
\* permits is 0, and when every branch has completed, by success or by a
\* throw, permits is 2 again and nobody waits.
C12_SemaphoreLeakFree ==
  (strategy = "parallel" /\ pc \in {"collab", "done"}) =>
     /\ permits \in 0..MAX_CONCURRENT_EXECUTIONS
     /\ permits + Held = MAX_CONCURRENT_EXECUTIONS
     /\ waiting # <<>> => permits = 0
     /\ {waiting[k] : k \in 1..Len(waiting)} =
          {i \in 1..Len(rules) : branch[i].pc = "waiting"}
     /\ (\A i \in 1..Len(rules) : branch[i].pc = "done") =>
          permits = MAX_CONCURRENT_EXECUTIONS /\ waiting = <<>>

\* three rules: one had to wait, one handler threw, all slots are back
C12_Witness ==
  /\ pc = "done"
  /\ strategy = "parallel"
  /\ Len(rules) > MAX_CONCURRENT_EXECUTIONS
  /\ \E i \in 1..Len(rules) : branch[i].threw
  /\ \E i \in 1..Len(rules) : ~branch[i].threw
  /\ permits = MAX_CONCURRENT_EXECUTIONS

\* C13: within one run the key set of context.sharedData never shrinks:
\* not from stage to stage, not from the state a rule is given to the state
\* its handler is invoked with, not from there to the rule's result, and
\* not from the sequential chain, the merge base, the merged results or the
\* adopted winner to the state the collaboration stage returns.
C13_SharedDataOnlyGrows ==
  [][/\ KeysOf(st.shared) \subseteq KeysOf(st'.shared)
     /\ KeysOf(pre.shared) \subseteq KeysOf(pre'.shared) \/ pc = "handler_done"
     /\ pc = "handler_done" => KeysOf(st.shared) \subseteq KeysOf(pre'.shared)
     /\ \A i \in 1..Len(rules) :
          /\ (pc = "collab" /\ pc' = "collab" /\ branch[i].pc = "ready"
                /\ branch'[i].pc = "invoking") =>
               KeysOf((IF strategy = "sequential" THEN cur ELSE pre).shared)
                 \subseteq KeysOf(branch'[i].snap.shared)
          /\ (pc = "collab" /\ pc' = "collab" /\ branch[i].pc = "invoking"
                /\ branch'[i].pc = "done") =>
               KeysOf(branch[i].snap.shared)
                 \subseteq KeysOf(branch'[i].result.shared)
     /\ (pc = "collab" /\ pc' = "done") =>
          /\ strategy = "sequential" =>
               KeysOf(cur.shared) \subseteq KeysOf(st'.shared)
          /\ strategy \in {"parallel", "all-finish-merge"} =>
               /\ KeysOf(pre.shared) \subseteq KeysOf(st'.shared)
               /\ \A i \in 1..Len(rules) :
                    KeysOf(branch[i].result.shared) \subseteq KeysOf(st'.shared)
          /\ strategy = "winner-take-all" =>
               KeysOf(branch[1].result.shared) \subseteq KeysOf(st'.shared)
    ]_vars

\* a merge of two results into a base state that was marked as ingested
C13_Witness ==
  /\ pc = "done"
  /\ strategy = "all-finish-merge"
  /\ Len(rules) >= 2
  /\ pre.shared["__reportIngested"] # ""
  /\ Cardinality(KeysOf(st.shared)) >= 3

\* the number of times op occurs in a call's list of external mutations
Count(ops, op) == Cardinality({k \in 1..Len(ops) : ops[k] = op})

LastKey == last.policy.plan.idempotencyKey

\* C14 (as claimed): the same ParsedIntent submitted twice, at any two
\* points in time, gets the same idempotencyKey and the queue holds one job
\* for it.
C14_SameIntentSameKey ==
  (prev.status = "scheduled" /\ last.status = "scheduled"
     /\ last.request = prev.request
     /\ last.request.parsed.operation = "create") =>
     /\ LastKey = prev.key
     /\ Cardinality({j \in queue : j.key \in {prev.key, LastKey}}) = 1

\* C15 (as claimed): when policy evaluation fails, for a create and for an
\* update, the call has performed no job-queue operation and no plan-store
\* write, has written exactly one dead letter with the rejection reason and
\* answers with a failed action stating that reason.
C15_PolicyFailureMutatesNothing ==
  last.status = "policy_failed" =>
     /\ last.ops = <<"dlq">>
     /\ last.action = "plan_notification/failed"
     /\ last.reason = last.policy.error

\* C16: an update of notification N removes the job stored for N before it
\* submits the new one, submits it under the id N and not under the new
\* plan's idempotencyKey, and after a successful update the queue holds
\* exactly one job for N, carrying the new plan, and the plan store maps N
\* to it.
C16_UpdateKeepsIdentity ==
  [][(served' = served + 1 /\ last'.status = "scheduled"
        /\ last'.request.parsed.operation = "update") =>
       LET n == last'.request.parsed.notificationId
           old == GetJobId(planStore, n)
       IN /\ last'.notificationId = n
          /\ last'.jobId = n
          /\ (\E j \in queue : j.id = old) =>
               /\ last'.ops = <<"remove", "enqueue", "save">>
               /\ last'.removed = old
          /\ ~(\E j \in queue : j.id = old) =>
               last'.ops = <<"enqueue", "save">>
          /\ {j \in queue' : j.id = n} =
               {[id |-> n, key |-> last'.policy.plan.idempotencyKey]}
          /\ GetJobId(planStore', n) = n
          /\ queue' \ {j \in queue' : j.id = n} =
               queue \ {j \in queue : j.id \in {n, old}}
    ]_vars

\* a scheduled notification was rescheduled in place
C16_Witness ==
  /\ last.status = "scheduled"
  /\ last.request.parsed.operation = "update"
  /\ last.removed = last.request.parsed.notificationId
  /\ last.policy.plan.idempotencyKey # last.notificationId
  /\ Cardinality(queue) = 1

C18_ExactlyOneOfScheduleAtAndRepeat ==
  last.policy.ok =>
     (last.policy.plan.scheduleAt # "") # (last.policy.plan.repeat # "")

\* C19 (as claimed): evaluatePolicy takes the recipients from the intent,
\* and an intent without recipients yields {ok: false} with the recipients
\* error and no plan.
C19_NoRecipientsFails ==
  (last.status \notin {"none", "threw"}
     /\ last.request.parsed.recipients = <<>>) =>
     /\ ~last.policy.ok
     /\ last.policy.error = "No valid recipient phone numbers found."
     /\ last.policy.plan = NoPlan

RouterCalls ==
  LET RECURSIVE Sum(_)
      Sum(S) == IF S = {} THEN 0
                ELSE LET a == CHOOSE x \in S : TRUE
                     IN calls[<<"router", a>>] + Sum(S \ {a})
  IN Sum(Agents)

\* C20: an appointment.* intent with metadata absent, without access token
\* or with the placeholder token makes the router answer with the guard's
\* explanation without dispatching to any handler, whichever tier
\* classified the request; any other intent, or a valid token, is not
\* blocked and is dispatched.
C20_GuardBeforeDispatch ==
  pc = "router_done" =>
     IF IsAppointmentIntent(classified.intent) /\ token # "valid"
     THEN /\ RouterCalls = 0
          /\ st.finalOutput.reply = "guard"
          /\ st.intent = "blocked"
          /\ st.currentAgent = "none"
     ELSE /\ RouterCalls = 1
          /\ st.finalOutput.reply # "guard"
          /\ st.intent # "blocked"

\* an appointment.* intent outside the routing table, classified by the
\* hybrid tier, with the placeholder token
C20_Witness ==
  /\ pc = "router_done"
  /\ classified = [intent |-> "appointment.other", tier |-> "hybrid"]
  /\ token = "placeholder"
  /\ st.finalOutput.reply = "guard"


RECURSIVE NotThrownInOrder(_, _)
\* the results of the branches whose handler did not throw, in list order
NotThrownInOrder(b, idx) ==
  IF idx = <<>> THEN <<>>
  ELSE IF ~b[Head(idx)].threw
       THEN <<b[Head(idx)].result>> \o NotThrownInOrder(b, Tail(idx))
       ELSE NotThrownInOrder(b, Tail(idx))

C26_HandlerInvokedOnce ==
  (pc \in {"handler_done", "collab", "done"} /\ Len(stages) >= 2
     /\ st.error = "" /\ cfg = "builtin") =>
     \A a \in Agents :
        a = ResolveRoute(classified.intent) =>
          calls[<<"router", a>>] + calls[<<"handler", a>>] = 1

\* C27 (as claimed): a request the guard blocks ends with the guard's
\* explanation as reply, no error, a currentAgent other than the error
\* sentinel, and without a handler lookup for 'none' in the handler stage.
C27_BlockedRequestReply ==
  (pc = "done" /\ cfg = "builtin" /\ Blocked(classified.intent, token)) =>
     /\ st.finalOutput.reply = "guard"
     /\ st.error = ""
     /\ st.currentAgent # ERROR_SENTINEL

\* C29 (as claimed): the run of a request flagged as multi-agent invokes
\* only the primary route's handler and always ends with the primary route
\* as currentAgent.
C29_AsClaimed ==
  (Len(stages) >= 1 /\ st.multiAgentRequest) =>
     /\ \A a \in Agents \ {ResolveRoute(classified.intent)} :
          \A sn \in StageNames : calls[<<sn, a>>] = 0
     /\ pc = "done" => st.currentAgent = ResolveRoute(classified.intent)

\* C29: the run of a request flagged as multi-agent invokes only the primary
\* route's handler: no other handler, so none named in additionalAgents, is
\* invoked by the router stage, the handler stage or the collaboration
\* stage, and a run that ends without an error ends with the primary route
\* as currentAgent.
C29_OnlyPrimaryInvoked ==
  (Len(stages) >= 1 /\ st.multiAgentRequest) =>
     /\ \A a \in Agents \ {ResolveRoute(classified.intent)} :
          \A sn \in StageNames : calls[<<sn, a>>] = 0
     /\ CollaborationCalls = 0
     /\ (pc = "done" /\ st.error = "") =>
          st.currentAgent = ResolveRoute(classified.intent)

\* a notification request flagged with the appointment handler as additional
\* agent, whose handler attached the data the cascade rule looks for
C29_Witness ==
  /\ pc = "done"
  /\ Len(stages) = 3
  /\ st.error = ""
  /\ st.multiAgentRequest
  /\ st.additionalAgents = <<"appointment">>
  /\ st.currentAgent = "notification"
  /\ st.finalOutput.shared["notificationSchedule"] # ""

\* C30: whatever the sharedData and the currentAgent are, at most one of the
\* two built-in rules applies; so with the built-in rule list a cascade runs a
\* single rule under the sequential strategy, never under winner-take-all or
\* all-finish-merge.
C30_BuiltinRulesExclusive ==
  /\ \A sd \in [Keys -> {"", "set"}] :
       \A a \in Agents \cup {"none", "chat", "router", ERROR_SENTINEL} :
          ~ /\ ShouldExecute(GetCollaborationRules[1], sd, a)
            /\ ShouldExecute(GetCollaborationRules[2], sd, a)
  /\ cfg = "builtin" =>
       /\ Len(rules) <= 1
       /\ strategy \in {"", "sequential"}

\* a cascade of the built-in rule list that ran
C30_Witness ==
  /\ cfg = "builtin"
  /\ pc = "done"
  /\ Len(rules) = 1
  /\ rules[1] = CreateNotificationToAppointmentRule
  /\ strategy = "sequential"
  /\ calls[<<"collaboration", "appointment">>] = 1

\* the request of the last call named no notificationId and the matching
\* found several candidates
AmbiguousMatch ==
  /\ last.status # "none"
  /\ last.request.parsed.operation \in {"cancel", "update"}
  /\ last.request.parsed.notificationId = ""
  /\ last.match.reason = "ambiguous"

\* C21 (as claimed): a cancel or update that names no notificationId and
\* whose matching is ambiguous mutates neither the job queue nor the plan
\* store and answers with a pending action together with a follow-up of type
\* 'question', for cancel as well as for update.
C21_AmbiguousAsksBack ==
  AmbiguousMatch =>
     /\ last.ops = <<>>
     /\ last.status = "pending"
     /\ last.followup = "question"

\* the candidates of the last call's matching and their best score, as
\* the claim describes them: a date match weighs 10, a keyword 1
Scored ==
  LET u == last.request.message
      ps == {last.plans[k] : k \in 1..Len(last.plans)}
  IN {Candidate(p, u) : p \in {e \in ps : Candidate(e, u).id # ""}}

TopScore ==
  CHOOSE m \in {c.score : c \in Scored} : \A c \in Scored : c.score <= m

Matched ==
  /\ last.status \notin {"none", "threw"}
  /\ last.request.parsed.operation \in {"cancel", "update"}
  /\ last.request.parsed.notificationId = ""
  /\ last.match.reason # "error"

\* C22 (as claimed): matching selects a plan only when it is the single
\* top-score candidate and its date is mentioned in the utterance;
\* candidates tied at the top score, also when no candidate's date matches,
\* yield 'ambiguous'; an utterance without a date yields 'not_found'.
C22_MatchingRule ==
  Matched =>
     LET dates == MentionedDates(last.request.message) IN
     /\ last.match.ok =>
          /\ Cardinality({c \in Scored : c.score = TopScore}) = 1
          /\ \E c \in Scored : /\ c.id = last.match.notificationId
                               /\ c.score = TopScore
                               /\ c.score >= 10
     /\ (dates # <<>> /\ Scored # {}
           /\ Cardinality({c \in Scored : c.score = TopScore}) > 1) =>
          last.match.reason = "ambiguous"
     /\ dates = <<>> => last.match.reason = "not_found"

\* C28 (as claimed): a plan the scheduler saved with scheduleAt on M/D is
\* found by a later cancel or update that names no notificationId and
\* mentions M/D, when no other plan is on that date: the request resolves to
\* that plan's notificationId.
C28_SavedPlanIsFound ==
  Matched =>
     \A e \in {last.plans[k] : k \in 1..Len(last.plans)} :
        LET dates == MentionedDates(last.request.message)
            others == {o \in {last.plans[k] : k \in 1..Len(last.plans)} :
                         /\ o # e
                         /\ \E d \in {o.scheduleAt, o.when, o.schedule} :
                              \E k \in 1..Len(dates) :
                                 UTCMonthDay(d) = dates[k]}
        IN (/\ e.scheduleAt # ""
            /\ \E k \in 1..Len(dates) : UTCMonthDay(e.scheduleAt) = dates[k]
            /\ others = {}) =>
             /\ last.match.ok
             /\ last.match.notificationId = e.nid

\* the last call served a create request whose schedule was left to
\* inference, and what the expressions found in its utterance
Inferred ==
  /\ last.status = "scheduled"
  /\ last.request.parsed.operation = "create"
  /\ last.request.parsed.schedule.type \in {"now", "missing"}

LastLex == Lexed(last.request.message)

\* C23: when the schedule is 'now' or missing the patterns are tried in the
\* order tomorrow, in N minutes/hours/days, next <weekday>, bare at TIME,
\* and the plan is scheduled at what the first matching pattern gives,
\* whatever later patterns the utterance also matches; when none matches the
\* plan is scheduled now.
C23_InferencePriority ==
  Inferred =>
     LET lex == LastLex
         t == last.at
         at == last.policy.plan.scheduleAt
     IN /\ lex.tomorrow => at = At(InferTomorrow(lex, t))
        /\ (~lex.tomorrow /\ lex.amount # -1) => at = At(InferRelative(lex, t))
        /\ (~lex.tomorrow /\ lex.amount = -1 /\ lex.weekday # -1) =>
             at = At(InferNextWeekday(lex, t))
        /\ (~lex.tomorrow /\ lex.amount = -1 /\ lex.weekday = -1
              /\ lex.hour # -1) => at = At(InferBareTime(lex, t))
        /\ (~lex.tomorrow /\ lex.amount = -1 /\ lex.weekday = -1
              /\ lex.hour = -1) => at = At(t)
        /\ last.policy.plan.repeat = ""

\* an utterance that matches the first and the second pattern, scheduled on
\* the next day at 09:00
C23_Witness ==
  /\ Inferred
  /\ LastLex.tomorrow
  /\ LastLex.amount = 2
  /\ last.policy.plan.scheduleAt
       = At(((last.at \div MINUTES_PER_DAY) + 1) * MINUTES_PER_DAY + 540)

\* C24 (as claimed): for a bare 'at TIME' utterance the plan is scheduled
\* strictly later than now and at most 24 hours ahead, at that time of day,
\* where 12am is hour 0 and 12pm is hour 12.
C24_BareTimeWithinADay ==
  (Inferred /\ ~LastLex.tomorrow /\ LastLex.amount = -1
     /\ LastLex.weekday = -1 /\ LastLex.hour # -1) =>
     \E k \in 1..MINUTES_PER_DAY :
        /\ last.policy.plan.scheduleAt = At(last.at + k)
        /\ LastLex.meridiem = "am" =>
             ((last.at + k) % MINUTES_PER_DAY) \div 60 = LastLex.hour % 12
        /\ LastLex.meridiem = "pm" =>
             ((last.at + k) % MINUTES_PER_DAY) \div 60
               = (LastLex.hour % 12) + 12


============================================================================
